---- MODULE Spec2Model ----
(***************************************************************************)
(* A model of the co3 core: the collation registry built by                *)
(* FormatRegistryMeta, CO3.collate, the Collector session store and the    *)
(* Mapper (attach / collect).                                              *)
(*                                                                         *)
(* Python's None is the string "None" throughout (as a key, as a group and *)
(* as a returned value).  A method object is the pair of the class that    *)
(* declares it and its name.  Type hierarchies are single-inheritance      *)
(* chains below CO3: type 1 derives from CO3 and type i+1 from type i.     *)
(***************************************************************************)
EXTENDS Integers, Sequences, FiniteSets, TLC

VARIABLES
    types,           \* the class bodies declared so far, base first
    key_registry,    \* per type: the key_registry class attribute
    group_registry,  \* per type: the group_registry class attribute
    call,            \* the last CO3.collate call and its outcome
    tables,          \* what the name tables is bound to in module collector
    utils,           \* what the name utils is bound to in module collector
    inserts,         \* Collector._inserts: receipt -> (component -> rows)
    minted,          \* the number of receipts minted so far
    owner,           \* per minted receipt, the producer whose call minted it
    cres,            \* the last Collector call and its outcome
    action_registry, \* whether the domain types define an action_registry
    attr_compose_map,\* whether the Mapper was given an attr_compose_map
    coll_compose_map,\* whether the Mapper was given a coll_compose_map
    component_set,   \* Schema._component_set
    component_map,   \* Schema._component_map: name -> component
    attribute_comps, \* Mapper.attribute_comps: type -> component
    collation_groups,\* Mapper.collation_groups: type -> (group -> component)
    mres,            \* the last Mapper call and its outcome
    db,              \* Database: its _local_cache and its reset_cache flag
    dcall            \* the last access to the Database and its outcome

regVars == <<types, key_registry, group_registry>>

colVars == <<tables, utils, inserts, minted, owner, cres>>

mapVars == <<action_registry, attr_compose_map, coll_compose_map,
             component_set, component_map,
             attribute_comps, collation_groups, mres>>

dbVars == <<db, dcall>>

vars == <<types, key_registry, group_registry, call,
          tables, utils, inserts, minted, owner, cres,
          action_registry, attr_compose_map, coll_compose_map,
          component_set, component_map,
          attribute_comps, collation_groups, mres, db, dcall>>

----------------------------------------------------------------------------
(* Bounds of the model *)

MaxDepth == 3

MaxDecl == 1

None == "None"

\* method names, in the alphabetical order inspect.getmembers sorts by
MethodNames == <<"cut", "dice", "ma", "mb", "ripen", "rot">>

\* the method names of the generated class bodies
BodyNames == {"ma", "mb"}

Keys == {"k1"}

\* a key no type registers
UnregKey == "kx"

NamedGroups == {"g1", "g2"}

\* the group lists an explicit @collate(key, groups=...) is given;
\* groups=None is the list [None]
GroupLists == {<<"g1">>, <<"g1", "g2">>, <<None>>}

Range(s) == {s[i] : i \in DOMAIN s}

AllGroups == NamedGroups \cup BodyNames \cup {None}

\* the positional arguments a collate call forwards
ArgLists == {<<"x">>}

MaxReceipts == 2

MaxMinted == 4

MaxList == 1

\* the length of the chain of types composed
ChainDepth == 3

Producers == {"p1", "p2"}

\* the storage components and, for each, the columns with a default value
\* (every column but the id primary key)
Components == {"vegetable", "tomato", "tomato_aging_states", "tomato_cooking_states"}

DefaultCols(comp) ==
    CASE comp = "vegetable" -> {"name", "color"}
      [] comp = "tomato" -> {"name", "radius"}
      [] comp = "tomato_aging_states" -> {"name", "state", "age"}
      [] comp = "tomato_cooking_states" -> {"name", "state", "pieces"}

\* a free name of module collector that nothing binds
Unbound == {"<unbound>"}

\* the key sets of tables.table_map the module may find bound
TableMaps == {Components, {"vegetable", "tomato"}}

----------------------------------------------------------------------------
(* collate decorator: the (key, groups) tag of a method *)

\* @collate('key', groups=[...]) on a method called name
ExplicitDecl(name, key, groups) == [name |-> name, key |-> key, groups |-> groups]

\* bare @collate on a method called name: key None, groups [name]
ImplicitDecl(name) == [name |-> name, key |-> None, groups |-> <<name>>]

Decls ==
    {ExplicitDecl(n, k, gs) : n \in BodyNames, k \in Keys, gs \in GroupLists}
        \cup {ImplicitDecl(n) : n \in BodyNames}

\* a class body: tagged methods in declaration order, names distinct
ClassBodies ==
    {b \in UNION {[1..n -> Decls] : n \in 0..MaxDecl} :
        \A i, j \in DOMAIN b : i # j => b[i].name # b[j].name}

----------------------------------------------------------------------------
(* FormatRegistryMeta.__new__ *)

EmptyRegistry == [keys |-> <<>>, groups |-> <<>>]

\* the method object declared by class cls under decl d
Method(cls, d) == [cls |-> cls, name |-> d.name]

\* group_registry[group].append(key) for each group of the list, in order
RECURSIVE AppendGroups(_, _, _)
AppendGroups(gr, key, groups) ==
    IF groups = <<>> THEN gr
    ELSE LET g == Head(groups)
             old == IF g \in DOMAIN gr THEN gr[g] ELSE <<>>
             gr1 == [x \in DOMAIN gr \cup {g} |->
                        IF x = g THEN Append(old, key) ELSE gr[x]]
         IN  AppendGroups(gr1, key, Tail(groups))

\* register_action(method) for a tagged method
register_action(reg, cls, d) ==
    LET kr == reg.keys
        kr1 ==
            IF d.key = None
            THEN LET imp == IF None \in DOMAIN kr THEN kr[None] ELSE <<>>
                     imp1 == [g \in DOMAIN imp \cup {d.groups[1]} |->
                                IF g = d.groups[1] THEN Method(cls, d) ELSE imp[g]]
                 IN  [k \in DOMAIN kr \cup {None} |-> IF k = None THEN imp1 ELSE kr[k]]
            ELSE [k \in DOMAIN kr \cup {d.key} |->
                    IF k = d.key
                    THEN [method |-> Method(cls, d), groups |-> d.groups]
                    ELSE kr[k]]
    IN  [keys |-> kr1, groups |-> AppendGroups(reg.groups, d.key, d.groups)]

\* the class that provides attribute name to class i: the most derived
\* declaration at or above i (0 when none declares it)
RECURSIVE Provider(_, _, _)
Provider(ts, i, name) ==
    IF i = 0 THEN 0
    ELSE IF \E j \in DOMAIN ts[i] : ts[i][j].name = name THEN i
    ELSE Provider(ts, i - 1, name)

DeclOf(ts, i, name) ==
    LET j == CHOOSE j \in DOMAIN ts[i] : ts[i][j].name = name IN ts[i][j]

\* inspect.getmembers(_class, isfunction): every function attribute of the
\* class, inherited ones included, sorted by name; each with its declaring class
RECURSIVE MembersFrom(_, _, _)
MembersFrom(ts, i, n) ==
    IF n > Len(MethodNames) THEN <<>>
    ELSE LET p == Provider(ts, i, MethodNames[n])
         IN  (IF p = 0 THEN <<>>
              ELSE <<[cls |-> p, decl |-> DeclOf(ts, p, MethodNames[n])]>>)
             \o MembersFrom(ts, i, n + 1)

getmembers(ts, i) == MembersFrom(ts, i, 1)

RECURSIVE RegisterMembers(_, _)
RegisterMembers(reg, members) ==
    IF members = <<>> THEN reg
    ELSE RegisterMembers(register_action(reg, Head(members).cls, Head(members).decl),
                         Tail(members))

\* the loop over reversed(base.mro()): classes 1..base, base first
RECURSIVE RegisterBases(_, _, _, _)
RegisterBases(reg, ts, i, base) ==
    IF i > base THEN reg
    ELSE RegisterBases(RegisterMembers(reg, getmembers(ts, i)), ts, i + 1, base)

\* the loop over attrs.items() of the class being created
RECURSIVE RegisterAttrs(_, _, _, _)
RegisterAttrs(reg, cls, body, j) ==
    IF j > Len(body) THEN reg
    ELSE RegisterAttrs(register_action(reg, cls, body[j]), cls, body, j + 1)

\* the registries of the class created with body ts[n] and base n-1
MetaNew(ts, n) ==
    RegisterAttrs(RegisterBases(EmptyRegistry, ts, 1, n - 1), n, ts[n], 1)

----------------------------------------------------------------------------
(* CO3.collate *)

\* collate that hands a key it does not know to an implicit handler even when
\* no group is given
collateMutantWildcard(kr, key, group, args) ==
    IF key = None THEN [kind |-> "return", value |-> None]
    ELSE IF key \notin DOMAIN kr
    THEN IF None \notin DOMAIN kr
         THEN IF group = None THEN [kind |-> "return", value |-> None]
              ELSE [kind |-> "raise", value |-> "KeyError"]
         ELSE LET g == IF group = None THEN CHOOSE x \in DOMAIN kr[None] : TRUE
                       ELSE group
              IN  IF g \notin DOMAIN kr[None] THEN [kind |-> "return", value |-> None]
                  ELSE [kind |-> "invoke", method |-> kr[None][g],
                        args |-> <<key>> \o args]
    ELSE [kind |-> "invoke", method |-> kr[key].method, args |-> args]

\* collate that lets a supplied implicit group take precedence over the key
collateMutantGroupFirst(kr, key, group, args) ==
    IF key = None THEN [kind |-> "return", value |-> None]
    ELSE IF group # None /\ None \in DOMAIN kr /\ group \in DOMAIN kr[None]
    THEN [kind |-> "invoke", method |-> kr[None][group], args |-> <<key>> \o args]
    ELSE IF key \notin DOMAIN kr THEN [kind |-> "return", value |-> None]
    ELSE [kind |-> "invoke", method |-> kr[key].method, args |-> args]

\* the outcome of obj.collate(key, group, *args) for an instance of a type
\* whose key_registry is kr
collate(kr, key, group, args) ==
    IF key = None THEN [kind |-> "return", value |-> None]
    ELSE IF key \notin DOMAIN kr
    THEN IF group = None THEN [kind |-> "return", value |-> None]
         ELSE IF None \notin DOMAIN kr THEN [kind |-> "raise", value |-> "KeyError"]
         ELSE IF group \notin DOMAIN kr[None] THEN [kind |-> "return", value |-> None]
         ELSE [kind |-> "invoke", method |-> kr[None][group], args |-> <<key>> \o args]
    ELSE [kind |-> "invoke", method |-> kr[key].method, args |-> args]

----------------------------------------------------------------------------
(* Insertion-ordered dictionaries: sequences of [k, v] entries, keys distinct *)

ODKeys(d) == [i \in DOMAIN d |-> d[i].k]

ODHas(d, k) == \E i \in DOMAIN d : d[i].k = k

ODGet(d, k) == d[CHOOSE i \in DOMAIN d : d[i].k = k].v

\* d[k] = v: in place for a key that is held, at the end for a new one
ODSet(d, k, v) ==
    IF ODHas(d, k)
    THEN [i \in DOMAIN d |-> IF d[i].k = k THEN [k |-> k, v |-> v] ELSE d[i]]
    ELSE Append(d, [k |-> k, v |-> v])

ODDel(d, k) == SelectSeq(d, LAMBDA e : e.k # k)

----------------------------------------------------------------------------
(* co3.util.db.prepare_insert *)

\* the table's column defaults, updated with the entries of value_dict that
\* name a column of the table
prepare_insert(table, value_dict) ==
    [c \in DefaultCols(table) |->
        IF c \in DOMAIN value_dict THEN value_dict[c] ELSE "default"]

----------------------------------------------------------------------------
(* Collector *)

RECURSIVE ExtendAll(_, _)

\* an extend that replaces the rows gathered so far
ExtendAllMutantOverwrite(out, insert_dict) ==
    IF insert_dict = <<>> THEN out
    ELSE ExtendAll(ODSet(out, Head(insert_dict).k, Head(insert_dict).v),
                   Tail(insert_dict))

\* inserts[table].extend(insert_list) for every item of insert_dict
ExtendAll(out, insert_dict) ==
    IF insert_dict = <<>> THEN out
    ELSE LET e == Head(insert_dict)
             old == IF ODHas(out, e.k) THEN ODGet(out, e.k) ELSE <<>>
         IN  ExtendAll(ODSet(out, e.k, old \o e.v), Tail(insert_dict))

\* the loop of _inserts_from_receipts over the receipts list
RECURSIVE FromReceipts(_, _, _, _)
FromReceipts(store, out, receipts, pop) ==
    IF receipts = <<>> THEN [store |-> store, out |-> out]
    ELSE LET r == Head(receipts)
             held == ODHas(store, r)
             insert_dict == IF held THEN ODGet(store, r) ELSE <<>>
             store1 == IF pop THEN ODDel(store, r)
                       ELSE IF held THEN store
                       ELSE ODSet(store, r, <<>>)
         IN  FromReceipts(store1, ExtendAll(out, insert_dict), Tail(receipts), pop)

\* a pop that drops every bucket held, whatever the list names
inserts_from_receiptsMutantPopAll(store, receipts, pop) ==
    LET res == FromReceipts(store, <<>>,
                            IF receipts.given THEN receipts.list ELSE ODKeys(store),
                            pop)
    IN  [store |-> IF pop THEN <<>> ELSE res.store, out |-> res.out]

\* a flush that reads the buckets the way the inserts property does, and
\* leaves them held
inserts_from_receiptsMutantNoPop(store, receipts, pop) ==
    FromReceipts(store, <<>>,
                 IF receipts.given THEN receipts.list ELSE ODKeys(store),
                 FALSE)

\* Collector._inserts_from_receipts(receipts, pop); receipts omitted is
\* [given |-> FALSE]
inserts_from_receipts(store, receipts, pop) ==
    FromReceipts(store, <<>>,
                 IF receipts.given THEN receipts.list ELSE ODKeys(store),
                 pop)

\* Collector._generate_unique_receipt: a uuid4, never seen before
generate_unique_receipt(n) == n + 1

\* add_insert that stages but leaves the caller's list alone
add_insertMutantNoAppend(store, n, tbl, utl, table_name, insert_dict, receipts) ==
    IF tbl = Unbound
    THEN [store |-> store, minted |-> n, receipts |-> receipts,
          kind |-> "raise", value |-> "NameError", receipt |-> 0]
    ELSE IF table_name \notin tbl
    THEN [store |-> store, minted |-> n, receipts |-> receipts,
          kind |-> "return", value |-> None, receipt |-> 0]
    ELSE IF utl = Unbound
    THEN [store |-> ODSet(store, n + 1, <<[k |-> table_name, v |-> <<>>]>>),
          minted |-> n + 1, receipts |-> receipts,
          kind |-> "raise", value |-> "NameError", receipt |-> 0]
    ELSE [store |-> ODSet(store, n + 1,
                          <<[k |-> table_name,
                             v |-> <<prepare_insert(table_name, insert_dict)>>]>>),
          minted |-> n + 1, receipts |-> receipts,
          kind |-> "return", value |-> "receipt", receipt |-> n + 1]

\* Collector.add_insert(table_name, insert_dict, receipts): the store, the
\* caller's list and the outcome after the call
add_insert(store, n, tbl, utl, table_name, insert_dict, receipts) ==
    IF tbl = Unbound
    THEN [store |-> store, minted |-> n, receipts |-> receipts,
          kind |-> "raise", value |-> "NameError", receipt |-> 0]
    ELSE IF table_name \notin tbl
    THEN [store |-> store, minted |-> n, receipts |-> receipts,
          kind |-> "return", value |-> None, receipt |-> 0]
    ELSE LET receipt == generate_unique_receipt(n)
             \* self._inserts[receipt][table_name] creates the bucket and its
             \* row list before the argument of append is evaluated
             store1 == ODSet(store, receipt, <<[k |-> table_name, v |-> <<>>]>>)
         IN  IF utl = Unbound
             THEN [store |-> store1, minted |-> receipt, receipts |-> receipts,
                   kind |-> "raise", value |-> "NameError", receipt |-> 0]
             ELSE [store |-> ODSet(store, receipt,
                                   <<[k |-> table_name,
                                      v |-> <<prepare_insert(table_name, insert_dict)>>]>>),
                   minted |-> receipt,
                   receipts |-> IF receipts.given
                                THEN [given |-> TRUE,
                                      list |-> Append(receipts.list, receipt)]
                                ELSE receipts,
                   kind |-> "return", value |-> "receipt", receipt |-> receipt]

----------------------------------------------------------------------------
(* Schema and Component *)

\* the n-th Component constructed, with this name against this schema
Component(name, schema, n) == [name |-> name, schema |-> schema, id |-> n]

\* Schema.__contains__
SchemaContains(cset, comp) == comp \in cset

\* Schema.get_component: the component or None
HasComponent(cmap, name) == name \in DOMAIN cmap

\* Schema.add_component: the set and the name map afterwards
add_component(cset, cmap, comp) ==
    [component_set |-> cset \cup {comp},
     component_map |-> [n \in DOMAIN cmap \cup {comp.name} |->
                          IF n = comp.name THEN comp ELSE cmap[n]]]

\* Schema.get_component: the mapped component, or None
get_component(cmap, name) ==
    IF name \in DOMAIN cmap THEN [some |-> TRUE, comp |-> cmap[name]]
    ELSE [some |-> FALSE, comp |-> Component(None, None, 0)]

----------------------------------------------------------------------------
(* Mapper.attach *)

ByName(name) == [kind |-> "name", name |-> name, obj |-> Component(name, "none", 0)]

ByObject(comp) == [kind |-> "obj", name |-> comp.name, obj |-> comp]

\* a check that accepts whatever it is given
check_componentMutantNoCheck(cset, cmap, comp) ==
    [kind |-> "ok",
     comp |-> IF comp.kind = "name" /\ HasComponent(cmap, comp.name)
              THEN cmap[comp.name] ELSE comp.obj]

\* Mapper._check_component(comp): the component, or the error raised
check_component(cset, cmap, comp) ==
    IF comp.kind = "name"
    THEN IF HasComponent(cmap, comp.name)
         THEN [kind |-> "ok", comp |-> cmap[comp.name]]
         ELSE [kind |-> "raise", value |-> "ValueError"]
    ELSE IF ~SchemaContains(cset, comp.obj)
         THEN [kind |-> "raise", value |-> "TypeError"]
         ELSE [kind |-> "ok", comp |-> comp.obj]

\* m[k] = v on a dict held as a function
DictSet(m, k, v) == [x \in DOMAIN m \cup {k} |-> IF x = k THEN v ELSE m[x]]

\* collation_groups[type] of the defaultdict: the entry, created when absent
GroupMap(cg, type) == IF type \in DOMAIN cg THEN cg[type] ELSE <<>>

\* the loop of attach over coll_groups: checks each entry and writes the
\* checked component back into the caller's dict
RECURSIVE CheckGroups(_, _, _, _)
CheckGroups(cset, cmap, coll_groups, i) ==
    IF i > Len(coll_groups) THEN [kind |-> "ok", groups |-> coll_groups]
    ELSE LET c == check_component(cset, cmap, coll_groups[i].v)
         IN  IF c.kind = "raise"
             THEN [kind |-> "raise", value |-> c.value, groups |-> coll_groups]
             ELSE CheckGroups(cset, cmap,
                              [coll_groups EXCEPT ![i].v = ByObject(c.comp)], i + 1)

\* dict.update(coll_groups)
RECURSIVE UpdateGroups(_, _, _)
UpdateGroups(m, coll_groups, i) ==
    IF i > Len(coll_groups) THEN m
    ELSE UpdateGroups(DictSet(m, coll_groups[i].k, coll_groups[i].v.obj),
                      coll_groups, i + 1)

\* an attach that replaces the group map of the type by the supplied one
attachMutantReplace(cset, cmap, ac, cg, type_ref, attr_comp, coll_comp, coll_groups) ==
    LET a == check_component(cset, cmap, attr_comp)
    IN  IF a.kind = "raise"
        THEN [attribute_comps |-> ac, collation_groups |-> cg,
              kind |-> "raise", value |-> a.value]
        ELSE
        LET ac1 == DictSet(ac, type_ref, a.comp)
            d == IF coll_comp.given
                 THEN check_component(cset, cmap, coll_comp.comp)
                 ELSE [kind |-> "skip"]
        IN  IF d.kind = "raise"
            THEN [attribute_comps |-> ac1, collation_groups |-> cg,
                  kind |-> "raise", value |-> d.value]
            ELSE
            LET cg1 == IF d.kind = "ok"
                       THEN DictSet(cg, type_ref,
                                    DictSet(GroupMap(cg, type_ref), None, d.comp))
                       ELSE cg
                g == IF coll_groups.given
                     THEN CheckGroups(cset, cmap, coll_groups.d, 1)
                     ELSE [kind |-> "skip"]
            IN  IF g.kind = "raise"
                THEN [attribute_comps |-> ac1, collation_groups |-> cg1,
                      kind |-> "raise", value |-> g.value]
                ELSE [attribute_comps |-> ac1,
                      collation_groups |->
                          IF g.kind = "ok"
                          THEN DictSet(cg1, type_ref,
                                       UpdateGroups(<<>>, g.groups, 1))
                          ELSE cg1,
                      kind |-> "return", value |-> None]

\* Mapper.attach(type_ref, attr_comp, coll_comp, coll_groups): the two maps
\* after the call and its outcome; coll_comp and coll_groups are
\* [given, ...] records
attach(cset, cmap, ac, cg, type_ref, attr_comp, coll_comp, coll_groups) ==
    LET a == check_component(cset, cmap, attr_comp)
    IN  IF a.kind = "raise"
        THEN [attribute_comps |-> ac, collation_groups |-> cg,
              kind |-> "raise", value |-> a.value]
        ELSE
        LET ac1 == DictSet(ac, type_ref, a.comp)
            d == IF coll_comp.given
                 THEN check_component(cset, cmap, coll_comp.comp)
                 ELSE [kind |-> "skip"]
        IN  IF d.kind = "raise"
            THEN [attribute_comps |-> ac1, collation_groups |-> cg,
                  kind |-> "raise", value |-> d.value]
            ELSE
            LET cg1 == IF d.kind = "ok"
                       THEN DictSet(cg, type_ref,
                                    DictSet(GroupMap(cg, type_ref), None, d.comp))
                       ELSE cg
                g == IF coll_groups.given
                     THEN CheckGroups(cset, cmap, coll_groups.d, 1)
                     ELSE [kind |-> "skip"]
            IN  IF g.kind = "raise"
                THEN [attribute_comps |-> ac1, collation_groups |-> cg1,
                      kind |-> "raise", value |-> g.value]
                ELSE [attribute_comps |-> ac1,
                      collation_groups |->
                          IF g.kind = "ok"
                          THEN DictSet(cg1, type_ref,
                                       UpdateGroups(GroupMap(cg1, type_ref), g.groups, 1))
                          ELSE cg1,
                      kind |-> "return", value |-> None]

\* Mapper.get_attribute_comp / get_collation_comp: presence and value
HasAttributeComp(ac, type_ref) == type_ref \in DOMAIN ac

HasCollationComp(cg, type_ref, group) ==
    type_ref \in DOMAIN cg /\ group \in DOMAIN cg[type_ref]

\* Mapper.get_attribute_comp(type_ref): self.attribute_comps.get(type_ref),
\* with attribute_comps as the call leaves it
get_attribute_comp(ac, type_ref) ==
    [ac |-> ac,
     found |-> HasAttributeComp(ac, type_ref),
     comp |-> IF HasAttributeComp(ac, type_ref) THEN ac[type_ref]
              ELSE Component(None, None, 0)]

\* a lookup that indexes the defaultdict, which creates the type's entry
get_collation_compMutantIndex(cg, type_ref, group) ==
    [cg |-> IF type_ref \in DOMAIN cg THEN cg ELSE DictSet(cg, type_ref, <<>>),
     found |-> HasCollationComp(cg, type_ref, group),
     comp |-> IF HasCollationComp(cg, type_ref, group) THEN cg[type_ref][group]
              ELSE Component(None, None, 0)]

\* Mapper.get_collation_comp(type_ref, group):
\* self.collation_groups.get(type_ref, {}).get(group), with collation_groups
\* as the call leaves it
get_collation_comp(cg, type_ref, group) ==
    [cg |-> cg,
     found |-> HasCollationComp(cg, type_ref, group),
     comp |-> IF HasCollationComp(cg, type_ref, group) THEN cg[type_ref][group]
              ELSE Component(None, None, 0)]

----------------------------------------------------------------------------
(* Mapper.collect *)

\* {**connective_data, **collation_data}
MergeDicts(connective_data, collation_data) ==
    [c \in DOMAIN connective_data \cup DOMAIN collation_data |->
        IF c \in DOMAIN collation_data THEN collation_data[c] ELSE connective_data[c]]

EmptyDict == [c \in {} |-> ""]

\* one staged insert, as the walk made it
Staged(st, res, comp, payload, what, cls, key, group) ==
    IF res.kind = "return" /\ res.value = "receipt"
    THEN Append(st.staged, [receipt |-> res.receipt, comp |-> comp,
                            payload |-> payload, what |-> what,
                            cls |-> cls, key |-> key, group |-> group])
    ELSE st.staged

\* a walk that skips a component the Collector already holds rows for
CollectAddMutantSkipHeld(st, env, comp, payload, what, cls, key, group) ==
    LET res == add_insert(st.store, st.minted, env.tables, env.utils,
                          comp.name, payload, [given |-> TRUE, list |-> st.receipts])
    IN  IF \E i \in DOMAIN st.store : \E j \in DOMAIN st.store[i].v :
              st.store[i].v[j].k = comp.name
        THEN st
        ELSE [st EXCEPT !.store = res.store,
                        !.minted = res.minted,
                        !.receipts = res.receipts.list,
                        !.staged = Staged(st, res, comp, payload, what, cls, key, group),
                        !.kind = IF res.kind = "raise" THEN "raise" ELSE "ok",
                        !.value = IF res.kind = "raise" THEN res.value ELSE None]

\* self.collector.add_insert(comp, payload, receipts=receipts) within collect
CollectAdd(st, env, comp, payload, what, cls, key, group) ==
    LET res == add_insert(st.store, st.minted, env.tables, env.utils,
                          comp.name, payload, [given |-> TRUE, list |-> st.receipts])
    IN  [st EXCEPT !.store = res.store,
                   !.minted = res.minted,
                   !.receipts = res.receipts.list,
                   !.staged = Staged(st, res, comp, payload, what, cls, key, group),
                   !.kind = IF res.kind = "raise" THEN "raise" ELSE "ok",
                   !.value = IF res.kind = "raise" THEN res.value ELSE None]

\* the loop over the groups of one action key
RECURSIVE CollectGroups(_, _, _, _, _, _, _)
CollectGroups(st, env, obj, cls, key, data, groups) ==
    IF st.kind = "raise" \/ groups = <<>> THEN st
    ELSE LET group == Head(groups)
             look == get_collation_comp(st.cg, cls, group)
             st1 == [st EXCEPT !.cg = look.cg]
         IN  IF ~look.found
             THEN CollectGroups(st1, env, obj, cls, key, data, Tail(groups))
             ELSE CollectGroups(
                    CollectAdd(st1, env, look.comp,
                               MergeDicts(obj.connective[key], data),
                               "collation", cls, key, group),
                    env, obj, cls, key, data, Tail(groups))

RECURSIVE CollectKeys(_, _, _, _, _)

\* a loop over action_keys that a key without data ends
CollectKeysMutantBreak(st, env, obj, cls, keys) ==
    IF st.kind = "raise" \/ keys = <<>> THEN st
    ELSE LET key == Head(keys)
             out == collate(env.kr, key, None, <<>>)
             yields == out.kind = "invoke" /\ obj.results[key].kind # "None"
         IN  IF ~yields THEN st
             ELSE IF ~env.action_registry
             THEN [st EXCEPT !.kind = "raise", !.value = "AttributeError"]
             ELSE CollectKeys(
                    CollectGroups(st, env, obj, cls, key, obj.results[key].cols,
                                  IF key \in DOMAIN env.kr THEN env.kr[key].groups
                                  ELSE <<>>),
                    env, obj, cls, Tail(keys))

\* the loop over action_keys for one ancestor
CollectKeys(st, env, obj, cls, keys) ==
    IF st.kind = "raise" \/ keys = <<>> THEN st
    ELSE LET key == Head(keys)
             out == collate(env.kr, key, None, <<>>)
             st1 == [st EXCEPT !.calls = Append(@, [cls |-> cls, key |-> key,
                                                    kind |-> out.kind,
                                                    value |-> IF out.kind = "invoke"
                                                              THEN obj.results[key].kind
                                                              ELSE out.value])]
             yields == out.kind = "invoke" /\ obj.results[key].kind # "None"
         IN  IF ~yields THEN CollectKeys(st1, env, obj, cls, Tail(keys))
             ELSE IF ~env.action_registry
             THEN [st1 EXCEPT !.kind = "raise", !.value = "AttributeError"]
             ELSE CollectKeys(
                    CollectGroups(st1, env, obj, cls, key, obj.results[key].cols,
                                  IF key \in DOMAIN env.kr THEN env.kr[key].groups
                                  ELSE <<>>),
                    env, obj, cls, Tail(keys))

\* the loop over reversed(obj.__class__.__mro__[:-2]): classes 1..type
RECURSIVE CollectClasses(_, _, _, _, _)
CollectClasses(st, env, obj, cls, keys) ==
    IF st.kind = "raise" \/ cls > obj.type THEN st
    ELSE LET look == get_attribute_comp(st.ac, cls)
             st0 == [st EXCEPT !.ac = look.ac]
         IN  IF ~look.found
             THEN CollectClasses(st0, env, obj, cls + 1, keys)
             ELSE LET st1 == CollectAdd(st0, env, look.comp, obj.attributes,
                                        "attribute", cls, None, None)
                  IN  CollectClasses(CollectKeys(st1, env, obj, cls, keys),
                                     env, obj, cls + 1, keys)

\* Mapper.collect(obj, action_keys) for an instance without nested components
collect(st, env, obj, keys) == CollectClasses(st, env, obj, 1, keys)

\* what obj.components may hold: a CO3 instance, an instance of a CO3 subtype
\* that defines a collect method of its own, and an object that is not a CO3
ComponentKinds == {"co3", "co3_collect", "other"}

\* the loop over [c for c in obj.components if isinstance(c, CO3)]: the first
\* CO3 entry is asked for comp.collect, which CO3 does not define; when its
\* type defines one, the argument `collector` is a name the function lacks
CollectComponents(st, components) ==
    LET nested == SelectSeq(components, LAMBDA c : c # "other")
    IN  IF st.kind = "raise" \/ nested = <<>> THEN st
        ELSE [st EXCEPT !.kind = "raise",
                        !.value = IF Head(nested) = "co3" THEN "AttributeError"
                                  ELSE "NameError"]

----------------------------------------------------------------------------
(* Relation.compose and ComposableMapper.compose *)

\* Relation.compose(_with, on, outer)
RelationCompose(self, other, on, outer) == self

RECURSIVE ComposeGroups(_, _, _, _, _)

\* a loop over action_groups that takes the groups last to first
ComposeGroupsMutantReversed(st, env, cls, attr_comp, groups) ==
    IF st.kind = "raise" \/ groups = <<>> THEN st
    ELSE LET group == groups[Len(groups)]
             rest == SubSeq(groups, 1, Len(groups) - 1)
             look == get_collation_comp(st.cg, cls, group)
         IN  IF ~look.found
             THEN ComposeGroups([st EXCEPT !.cg = look.cg], env, cls, attr_comp, rest)
             ELSE IF ~env.coll_compose_map
             THEN [st EXCEPT !.cg = look.cg, !.kind = "raise", !.value = "TypeError"]
             ELSE LET coll_comp == look.comp
                      compose_condition == <<attr_comp.name, coll_comp.name>>
                      res == RelationCompose(st.coll_comp_agg, coll_comp,
                                             compose_condition, FALSE)
                  IN  ComposeGroups(
                         [st EXCEPT !.cg = look.cg,
                                    !.coll_comp_agg = res,
                                    !.joins = Append(@, [dir |-> "horizontal",
                                                         cls |-> cls,
                                                         self |-> st.coll_comp_agg,
                                                         other |-> coll_comp,
                                                         on |-> compose_condition,
                                                         result |-> res])],
                         env, cls, attr_comp, rest)

\* the loop of compose over action_groups for one ancestor: folds the
\* collation components of the groups into coll_comp_agg
ComposeGroups(st, env, cls, attr_comp, groups) ==
    IF st.kind = "raise" \/ groups = <<>> THEN st
    ELSE IF ~get_collation_comp(st.cg, cls, Head(groups)).found
    THEN ComposeGroups([st EXCEPT !.cg = get_collation_comp(st.cg, cls, Head(groups)).cg],
                       env, cls, attr_comp, Tail(groups))
    ELSE IF ~env.coll_compose_map
    THEN [st EXCEPT !.cg = get_collation_comp(st.cg, cls, Head(groups)).cg,
                    !.kind = "raise", !.value = "TypeError"]
    ELSE LET look == get_collation_comp(st.cg, cls, Head(groups))
             coll_comp == look.comp
             compose_condition == <<attr_comp.name, coll_comp.name>>
             res == RelationCompose(st.coll_comp_agg, coll_comp, compose_condition, FALSE)
         IN  ComposeGroups(
                [st EXCEPT !.cg = look.cg,
                           !.coll_comp_agg = res,
                           !.joins = Append(@, [dir |-> "horizontal", cls |-> cls,
                                                self |-> st.coll_comp_agg,
                                                other |-> coll_comp,
                                                on |-> compose_condition,
                                                result |-> res])],
                env, cls, attr_comp, Tail(groups))

\* the loop of compose over reversed(class_ref.__mro__[:-2]): classes 1..type
RECURSIVE ComposeClasses(_, _, _, _, _)
ComposeClasses(st, env, type, cls, action_groups) ==
    IF st.kind = "raise" \/ cls > type THEN st
    ELSE IF ~get_attribute_comp(st.ac, cls).found
    THEN ComposeClasses([st EXCEPT !.ac = get_attribute_comp(st.ac, cls).ac],
                        env, type, cls + 1, action_groups)
    ELSE LET look == get_attribute_comp(st.ac, cls)
             attr_comp == look.comp
             st0 == [st EXCEPT !.ac = look.ac, !.coll_comp_agg = attr_comp]
             st1 == IF action_groups.given
                    THEN ComposeGroups(st0, env, cls, attr_comp, action_groups.list)
                    ELSE st0
         IN  IF st1.kind = "raise" THEN st1
             ELSE IF ~st1.some
             THEN ComposeClasses([st1 EXCEPT !.some = TRUE,
                                             !.attr_comp_agg = st1.coll_comp_agg],
                                 env, type, cls + 1, action_groups)
             ELSE IF ~env.attr_compose_map
             THEN [st1 EXCEPT !.kind = "raise", !.value = "TypeError"]
             ELSE LET compose_condition == <<st1.attr_comp_agg.name, attr_comp.name>>
                      res == RelationCompose(st1.attr_comp_agg, st1.coll_comp_agg,
                                             compose_condition, FALSE)
                  IN  ComposeClasses(
                        [st1 EXCEPT !.attr_comp_agg = res,
                                    !.joins = Append(@, [dir |-> "vertical", cls |-> cls,
                                                         self |-> st1.attr_comp_agg,
                                                         other |-> st1.coll_comp_agg,
                                                         on |-> compose_condition,
                                                         result |-> res])],
                        env, type, cls + 1, action_groups)

\* a Relation that stands for no Relation: attr_comp_agg before the walk
NoRelation == [name |-> None, schema |-> None, id |-> 0]

\* a compose that starts the walk with an aggregate already in hand
composeMutantJoinFirst(env, type, action_groups) ==
    ComposeClasses([some |-> TRUE, attr_comp_agg |-> NoRelation,
                    coll_comp_agg |-> NoRelation, joins |-> <<>>,
                    kind |-> "ok", value |-> None,
                    ac |-> env.ac, cg |-> env.cg],
                   env, type, 1, action_groups)

\* ComposableMapper.compose(obj, action_groups): the joins made, and the
\* aggregate returned (some is FALSE when it is None)
compose(env, type, action_groups) ==
    ComposeClasses([some |-> FALSE, attr_comp_agg |-> NoRelation,
                    coll_comp_agg |-> NoRelation, joins |-> <<>>,
                    kind |-> "ok", value |-> None,
                    ac |-> env.ac, cg |-> env.cg],
                   env, type, 1, action_groups)

----------------------------------------------------------------------------
(* Database: the manage and index properties *)

\* the manage accesses that may pile up before the next index access
MaxManage == 3

\* the names under which dependent properties store results in _local_cache
CacheKeys == {"tables", "counts", "paths"}

\* Database.__init__: an empty _local_cache, reset_cache False
NewDatabase == [local_cache |-> {}, reset_cache |-> FALSE]

\* the manage property: queues the clear and wipes the local cache
manage(d) == [d EXCEPT !.reset_cache = TRUE, !.local_cache = {}]

\* an index property that clears the cache but leaves the flag set
indexMutantKeepFlag(d) ==
    [db |-> d, cache_clear |-> IF d.reset_cache THEN 1 ELSE 0]

\* the index property: the Database afterwards, and the number of calls it
\* made to self._index.cache_clear()
index(d) ==
    [db |-> [d EXCEPT !.reset_cache = FALSE],
     cache_clear |-> IF d.reset_cache THEN 1 ELSE 0]

NoAccess == [op |-> "none", pending |-> 0]

\* a Database just constructed, no property read yet
IdleDatabase ==
    /\ db = NewDatabase
    /\ dcall = NoAccess

\* database.manage: pending counts the manage accesses since the last index
\* access
Manage ==
    /\ dcall.pending < MaxManage
    /\ db' = manage(db)
    /\ dcall' = [op |-> "manage", before |-> db, pending |-> dcall.pending + 1]
    /\ UNCHANGED <<regVars, call, colVars, mapVars>>

\* database.index
Index ==
    /\ db' = index(db).db
    /\ dcall' = [op |-> "index", before |-> db, managed |-> dcall.pending,
                 cache_clear |-> index(db).cache_clear, pending |-> 0]
    /\ UNCHANGED <<regVars, call, colVars, mapVars>>

\* a dependent property that stores its result in _local_cache
Store(k) ==
    /\ db' = [db EXCEPT !.local_cache = @ \cup {k}]
    /\ dcall' = [op |-> "store", before |-> db, key |-> k,
                 pending |-> dcall.pending]
    /\ UNCHANGED <<regVars, call, colVars, mapVars>>

NextDatabase ==
    \/ Manage
    \/ Index
    \/ \E k \in CacheKeys : Store(k)

----------------------------------------------------------------------------
(* Type declaration and collate calls *)

NoCall == [op |-> "none"]

NoCres == [op |-> "none"]

\* the Collector of a fresh Mapper, in a module that binds neither name
IdleCollector ==
    /\ tables = Unbound
    /\ utils = Unbound
    /\ inserts = <<>>
    /\ minted = 0
    /\ owner = <<>>
    /\ cres = NoCres

NoMres == [op |-> "none"]

\* a Mapper over an empty Schema, nothing attached
IdleMapper ==
    /\ action_registry = FALSE
    /\ attr_compose_map = FALSE
    /\ coll_compose_map = FALSE
    /\ component_set = {}
    /\ component_map = <<>>
    /\ attribute_comps = <<>>
    /\ collation_groups = <<>>
    /\ mres = NoMres

InitRegistry ==
    /\ types = <<>>
    /\ key_registry = <<>>
    /\ group_registry = <<>>
    /\ call = NoCall
    /\ IdleDatabase
    /\ IdleCollector
    /\ IdleMapper

\* class T(<last declared type or CO3>): body
DeclareType(body) ==
    /\ Len(types) < MaxDepth
    /\ LET ts == Append(types, body)
           reg == MetaNew(ts, Len(ts))
       IN  /\ types' = ts
           /\ key_registry' = Append(key_registry, reg.keys)
           /\ group_registry' = Append(group_registry, reg.groups)
    /\ call' = NoCall
    /\ UNCHANGED <<dbVars, colVars, mapVars>>

\* obj.collate(key, group, *args) on an instance of type t; ret is what the
\* invoked method returns
Collate(t, key, group, args, ret) ==
    /\ t \in DOMAIN types
    /\ LET out == collate(key_registry[t], key, group, args)
       IN  call' = [op |-> "collate", type |-> t, key |-> key, group |-> group,
                    args |-> args, ret |-> ret, out |-> out,
                    result |-> IF out.kind = "invoke" THEN ret
                               ELSE IF out.kind = "return" THEN out.value
                               ELSE "raised"]
    /\ UNCHANGED <<dbVars, regVars, colVars, mapVars>>

NextRegistry ==
    \/ \E body \in ClassBodies : DeclareType(body)
    \/ \E t \in 1..MaxDepth, key \in Keys \cup {UnregKey, None},
          group \in AllGroups, args \in ArgLists, ret \in {"data", None} :
            Collate(t, key, group, args, ret)

SpecRegistry == InitRegistry /\ [][NextRegistry]_vars

\* the Database of the same program, its properties read in any order
SpecDatabase == InitRegistry /\ [][NextDatabase]_vars

----------------------------------------------------------------------------
(* Collector sessions shared by several producers *)

\* the row payloads producers hand to add_insert
Payloads ==
    {[name |-> "t1", color |-> "red", radius |-> "10"],
     [name |-> "t1", state |-> "ripe", age |-> "3"]}

Omitted == [given |-> FALSE, list |-> <<>>]

Given(list) == [given |-> TRUE, list |-> list]

\* explicit receipt lists: held, consumed or never minted receipts, repeats
\* included
ReceiptLists ==
    UNION {[1..n -> 1..(MaxReceipts + 1)] : n \in 0..MaxList}

\* the module's free names are bound, or not, before any call is made
InitCollector ==
    /\ types = <<>>
    /\ key_registry = <<>>
    /\ group_registry = <<>>
    /\ call = NoCall
    /\ IdleDatabase
    /\ tables \in {Unbound} \cup TableMaps
    /\ utils \in {Unbound, {"db"}}
    /\ inserts = <<>>
    /\ minted = 0
    /\ owner = <<>>
    /\ cres = NoCres
    /\ IdleMapper

\* producer p calls collector.add_insert(comp, payload, receipts)
AddInsert(p, comp, payload, receipts) ==
    /\ minted < MaxReceipts
    /\ LET res == add_insert(inserts, minted, tables, utils, comp, payload, receipts)
       IN  /\ inserts' = res.store
           /\ minted' = res.minted
           /\ owner' = IF res.minted > minted THEN Append(owner, p) ELSE owner
           /\ cres' = [op |-> "add_insert", by |-> p, comp |-> comp,
                       payload |-> payload, receipts |-> receipts,
                       before |-> inserts, kind |-> res.kind, value |-> res.value,
                       receipt |-> res.receipt, receipts_after |-> res.receipts]
    /\ UNCHANGED <<dbVars, regVars, call, tables, utils, mapVars>>

\* a producer calls collector.collect_inserts(receipts)
CollectInserts(receipts) ==
    /\ LET res == inserts_from_receipts(inserts, receipts, TRUE)
       IN  /\ inserts' = res.store
           /\ cres' = [op |-> "collect_inserts", receipts |-> receipts,
                       before |-> inserts, out |-> res.out]
    /\ UNCHANGED <<dbVars, regVars, call, tables, utils, minted, owner, mapVars>>

\* a producer reads collector.inserts
ReadInserts ==
    /\ LET res == inserts_from_receipts(inserts, Omitted, FALSE)
       IN  /\ inserts' = res.store
           /\ cres' = [op |-> "inserts", receipts |-> Omitted,
                       before |-> inserts, out |-> res.out]
    /\ UNCHANGED <<dbVars, regVars, call, tables, utils, minted, owner, mapVars>>

NextCollector ==
    \/ \E p \in Producers, comp \in {"vegetable", "tomato_aging_states"},
          payload \in Payloads, receipts \in {Omitted, Given(<<>>)} :
            AddInsert(p, comp, payload, receipts)
    \/ \E list \in ReceiptLists : CollectInserts(Given(list))
    \/ CollectInserts(Omitted)
    \/ ReadInserts

SpecCollector == InitCollector /\ [][NextCollector]_vars

----------------------------------------------------------------------------
(* Flushing receipts that are repeated, consumed or unknown *)

\* receipt lists with a receipt listed twice, and with a receipt no
\* add_insert of the session can have minted
FlushLists ==
    {<<1>>, <<2>>, <<1, 1>>, <<2, 1, 2>>, <<MaxReceipts + 1>>, <<1, MaxReceipts + 1>>}

NextFlush ==
    \/ \E p \in Producers, comp \in {"vegetable", "tomato_aging_states"},
          payload \in Payloads, receipts \in {Omitted, Given(<<>>)} :
            AddInsert(p, comp, payload, receipts)
    \/ \E list \in FlushLists : CollectInserts(Given(list))
    \/ CollectInserts(Omitted)

SpecFlush == InitCollector /\ [][NextFlush]_vars

----------------------------------------------------------------------------
(* The vegetables setup: Vegetable(CO3) and Tomato(Vegetable) *)

VegTypes ==
    << <<ImplicitDecl("cut")>>,
       <<ExplicitDecl("ripen", "ripe", <<"aging">>),
         ExplicitDecl("rot", "rotten", <<"aging">>),
         ExplicitDecl("dice", "diced", <<"cooking">>),
         ImplicitDecl("cut")>> >>

\* obj.attributes: vars(self)
InstanceAttributes(t) ==
    IF t = 1 THEN [name |-> "v1", color |-> "green"]
    ELSE [name |-> "t1", color |-> "red", radius |-> "10"]

\* obj.collation_attributes(key, group): {} in CO3, overridden by Tomato
CollationAttributes(t, key) ==
    IF t = 1 THEN EmptyDict ELSE [name |-> "t1", state |-> key]

\* what a registered action returns when it has data
ActionData(key) ==
    CASE key = "ripe" -> [age |-> "3"]
      [] key = "rotten" -> [age |-> "7"]
      [] key = "diced" -> [pieces |-> "4"]
      [] OTHER -> [pieces |-> "2"]

ResultKinds == {"data", "None"}

\* an instance of type t whose registered actions return results[key]; any
\* other method of it returns data when invoked
Instance(t, keys, results) ==
    [type |-> t,
     attributes |-> InstanceAttributes(t),
     connective |-> [k \in Range(keys) |-> CollationAttributes(t, k)],
     results |-> [k \in Range(keys) |->
                    LET kind == IF k \in DOMAIN results THEN results[k] ELSE "data"
                    IN  [kind |-> kind,
                         cols |-> IF kind = "data" THEN ActionData(k) ELSE EmptyDict]]]

\* the schema of the setup: one component per table, constructed in order
SetupComponents ==
    <<Component("vegetable", "veg", 1), Component("tomato", "veg", 2),
      Component("tomato_aging_states", "veg", 3), Component("tomato_cooking_states", "veg", 4)>>

ComponentNamed(name) ==
    SetupComponents[CHOOSE i \in DOMAIN SetupComponents : SetupComponents[i].name = name]

\* a Component constructed against another schema
ForeignComponent == Component("tomato", "other", 9)

InitSetup ==
    /\ types = VegTypes
    /\ key_registry = [t \in DOMAIN VegTypes |-> MetaNew(VegTypes, t).keys]
    /\ group_registry = [t \in DOMAIN VegTypes |-> MetaNew(VegTypes, t).groups]
    /\ call = NoCall
    /\ IdleDatabase
    /\ component_set = Range(SetupComponents)
    /\ component_map = [n \in Components |-> ComponentNamed(n)]
    /\ attribute_comps = <<>>
    /\ collation_groups = <<>>
    /\ mres = NoMres
    /\ inserts = <<>>
    /\ minted = 0
    /\ owner = <<>>
    /\ cres = NoCres

NotGiven == [given |-> FALSE]

\* mapper.attach(type_ref, attr_comp, coll_comp, coll_groups)
Attach(type_ref, attr_comp, coll_comp, coll_groups) ==
    /\ LET res == attach(component_set, component_map, attribute_comps,
                         collation_groups, type_ref, attr_comp, coll_comp, coll_groups)
       IN  /\ attribute_comps' = res.attribute_comps
           /\ collation_groups' = res.collation_groups
           /\ mres' = [op |-> "attach", type |-> type_ref, attr_comp |-> attr_comp,
                       coll_comp |-> coll_comp, coll_groups |-> coll_groups,
                       kind |-> res.kind, value |-> res.value]
    /\ cres' = NoCres
    /\ UNCHANGED <<dbVars, regVars, call, tables, utils, inserts, minted, owner,
                   action_registry, attr_compose_map, coll_compose_map,
                   component_set, component_map>>

\* the keys of a request that the type registers explicitly
RegisteredKeys(t, keys) == Range(keys) \cap (DOMAIN key_registry[t] \ {None})

\* what a caller remembers of an earlier collect: nothing
NoPrev == [op |-> "none"]

\* the (Component, payload key set) pairs of a list of staged inserts
StagedPairs(staged) ==
    {<<staged[i].comp.name, DOMAIN staged[i].payload>> : i \in DOMAIN staged}

\* mapper.collect(obj, keys) for an instance of type t whose registered
\* actions return results and whose components accessor returns components;
\* prev is what the caller remembers of its previous collect
CollectRecord(t, keys, results, components, prev) ==
    /\ t \in DOMAIN types
    /\ LET obj == Instance(t, keys, results)
           env == [kr |-> key_registry[t], ac |-> attribute_comps,
                   cg |-> collation_groups, tables |-> tables, utils |-> utils,
                   action_registry |-> action_registry]
           st0 == [store |-> inserts, minted |-> minted, receipts |-> <<>>,
                   staged |-> <<>>, calls |-> <<>>, kind |-> "ok", value |-> None,
                   ac |-> attribute_comps, cg |-> collation_groups]
       IN  \E st \in {CollectComponents(collect(st0, env, obj, keys), components)} :
           /\ st.minted <= MaxMinted
           /\ inserts' = st.store
           /\ minted' = st.minted
           /\ mres' = [op |-> "collect", type |-> t, keys |-> keys,
                       components |-> components, prev |-> prev,
                       results |-> results, fresh |-> inserts = <<>>,
                       after |-> st.store,
                       kind |-> IF st.kind = "raise" THEN "raise" ELSE "return",
                       value |-> st.value,
                       receipts |-> IF st.kind = "raise" THEN <<>> ELSE st.receipts,
                       staged |-> st.staged, calls |-> st.calls]
           /\ attribute_comps' = st.ac
           /\ collation_groups' = st.cg
    /\ cres' = NoCres
    /\ UNCHANGED <<dbVars, regVars, call, tables, utils, owner, action_registry,
                   attr_compose_map, coll_compose_map,
                   component_set, component_map>>

CollectWith(t, keys, results, components) ==
    CollectRecord(t, keys, results, components, NoPrev)

\* mapper.collect(obj, keys) for an instance with the default components
\* accessor of CO3, which returns []
Collect(t, keys, results) == CollectWith(t, keys, results, <<>>)

\* the caller of the last collect withdraws the receipts it was returned
Withdraw ==
    /\ mres.op = "collect"
    /\ mres.kind = "return"
    /\ CollectInserts(Given(mres.receipts))

----------------------------------------------------------------------------
(* Attaching components, valid or not, to the setup's types *)

InitAttach ==
    /\ InitSetup
    /\ tables = Unbound
    /\ utils = Unbound
    /\ action_registry = FALSE
    /\ attr_compose_map = TRUE
    /\ coll_compose_map = TRUE

AttachArgs ==
    {ByName("tomato"), ByName("missing"),
     ByObject(ComponentNamed("vegetable")), ByObject(ForeignComponent)}

DefaultArgs ==
    {NotGiven} \cup
    {[given |-> TRUE, comp |-> c] :
        c \in {ByName("tomato_aging_states"), ByName("missing"), ByObject(ForeignComponent)}}

GroupArgs ==
    {NotGiven} \cup
    {[given |-> TRUE, d |-> d] :
        d \in {<<[k |-> "aging", v |-> ByName("tomato_aging_states")]>>,
               <<[k |-> "aging", v |-> ByName("missing")]>>,
               <<[k |-> "aging", v |-> ByName("tomato_aging_states")],
                 [k |-> "cooking", v |-> ByObject(ForeignComponent)]>>}}

NextAttach ==
    \E type_ref \in DOMAIN VegTypes, attr_comp \in AttachArgs,
       coll_comp \in DefaultArgs, coll_groups \in GroupArgs :
        Attach(type_ref, attr_comp, coll_comp, coll_groups)

SpecAttach == InitAttach /\ [][NextAttach]_vars

----------------------------------------------------------------------------
(* Collecting instances of the setup's types through the Mapper *)

\* what the free names of module collector are bound to, and whether the
\* domain types define the action_registry attribute that collect reads
Environments ==
    {[tables |-> Unbound, utils |-> Unbound, action_registry |-> FALSE],
     [tables |-> Components, utils |-> Unbound, action_registry |-> FALSE],
     [tables |-> Components, utils |-> {"db"}, action_registry |-> FALSE],
     [tables |-> Components, utils |-> {"db"}, action_registry |-> TRUE],
     [tables |-> {"vegetable", "tomato"}, utils |-> {"db"}, action_registry |-> TRUE]}

InitMapper ==
    /\ InitSetup
    /\ \E e \in Environments :
        /\ tables = e.tables
        /\ utils = e.utils
        /\ action_registry = e.action_registry
    /\ attr_compose_map = TRUE
    /\ coll_compose_map = TRUE

\* the requested action keys: slice is a key no type registers
KeyLists == {<<>>, <<"ripe">>, <<"ripe", "diced">>, <<"slice">>, <<"slice", "ripe">>}

SetupAttachments ==
    {<<1, ByName("vegetable"), NotGiven>>,
     <<2, ByName("tomato"), NotGiven>>,
     <<2, ByName("tomato"),
       [given |-> TRUE,
        d |-> <<[k |-> "aging", v |-> ByName("tomato_aging_states")],
                [k |-> "cooking", v |-> ByName("tomato_cooking_states")]>>]>>,
     <<1, ByName("vegetable"),
       [given |-> TRUE, d |-> <<[k |-> "aging", v |-> ByName("tomato_aging_states")]>>]>>}

\* the setup attaches its components before anything is collected
Configure(a) ==
    /\ minted = 0
    /\ Attach(a[1], a[2], NotGiven, a[3])

NextMapper ==
    \/ \E a \in SetupAttachments : Configure(a)
    \/ \E t \in DOMAIN VegTypes, keys \in KeyLists :
        \E results \in [RegisteredKeys(t, keys) -> ResultKinds] :
            Collect(t, keys, results)
    \/ Withdraw
    \/ CollectInserts(Omitted)

SpecMapper == InitMapper /\ [][NextMapper]_vars

----------------------------------------------------------------------------
(* Collecting through a Mapper whose collation targets were set directly *)

\* mapper.collation_groups[type_ref][group] = comp: the public defaultdict
\* written without going through attach
AssignCollation(type_ref, group, comp) ==
    /\ minted = 0
    /\ comp \in component_set
    /\ collation_groups' =
          [t \in DOMAIN collation_groups \cup {type_ref} |->
             IF t # type_ref THEN collation_groups[t]
             ELSE [g \in (IF t \in DOMAIN collation_groups
                          THEN DOMAIN collation_groups[t] ELSE {}) \cup {group} |->
                     IF g = group THEN comp ELSE collation_groups[t][g]]]
    /\ mres' = [op |-> "assign", type |-> type_ref, group |-> group]
    /\ cres' = NoCres
    /\ UNCHANGED <<dbVars, regVars, call, tables, utils, inserts, minted, owner,
                   action_registry, attr_compose_map, coll_compose_map,
                   component_set, component_map, attribute_comps>>

\* an action that returns an empty mapping, or a row
EmptyKinds == {"empty", "data"}

CollationKeyLists == {<<>>, <<"ripe">>, <<"diced", "ripe">>}

\* what the components accessor of the collected instance returns
ComponentLists == {<<"other">>, <<"co3">>, <<"other", "co3_collect">>}

NextCollation ==
    \/ \E a \in SetupAttachments : Configure(a)
    \/ \E g \in {"aging", "cooking"} :
         AssignCollation(1, g, ComponentNamed("tomato_" \o g \o "_states"))
    \/ \E t \in DOMAIN VegTypes, keys \in CollationKeyLists :
        \E results \in [RegisteredKeys(t, keys) -> ResultKinds] :
            Collect(t, keys, results)
    \/ \E t \in DOMAIN VegTypes, components \in ComponentLists :
         CollectWith(t, <<>>, <<>>, components)
    \/ \E t \in DOMAIN VegTypes, keys \in CollationKeyLists :
        \E results \in [RegisteredKeys(t, keys) -> EmptyKinds] :
            Collect(t, keys, results)

SpecCollation == InitMapper /\ [][NextCollation]_vars

----------------------------------------------------------------------------
(* Collecting the same instance again *)

\* the caller collects an instance and remembers what the collect before it,
\* if the last Mapper call was one, was asked and what it staged
CollectAgain(t, keys, results) ==
    CollectRecord(t, keys, results, <<>>,
                  IF mres.op = "collect"
                  THEN [op |-> "collect", type |-> mres.type, keys |-> mres.keys,
                        results |-> mres.results, pairs |-> StagedPairs(mres.staged)]
                  ELSE NoPrev)

RepeatKeyLists == {<<>>, <<"ripe">>, <<"ripe", "diced">>}

NextRepeat ==
    \/ \E a \in SetupAttachments : Configure(a)
    \/ \E t \in DOMAIN VegTypes, keys \in RepeatKeyLists :
        \E results \in [RegisteredKeys(t, keys) -> ResultKinds] :
            CollectAgain(t, keys, results)
    \/ CollectInserts(Omitted)

SpecRepeat == InitMapper /\ [][NextRepeat]_vars

----------------------------------------------------------------------------
(* Attaching to a type again and again *)

MergeGroupArgs ==
    {NotGiven} \cup
    {[given |-> TRUE, d |-> d] :
        d \in {<<[k |-> "aging", v |-> ByName("tomato_aging_states")]>>,
               <<[k |-> "aging", v |-> ByName("tomato_cooking_states")]>>,
               <<[k |-> "cooking", v |-> ByObject(ComponentNamed("tomato_cooking_states"))]>>,
               <<[k |-> None, v |-> ByName("tomato")],
                 [k |-> "aging", v |-> ByName("tomato_aging_states")]>>}}

NextMerge ==
    \E type_ref \in DOMAIN VegTypes, attr_comp \in {ByName("vegetable"), ByName("tomato")},
       coll_comp \in {NotGiven, [given |-> TRUE, comp |-> ByName("tomato_aging_states")]},
       coll_groups \in MergeGroupArgs :
        Attach(type_ref, attr_comp, coll_comp, coll_groups)

SpecMerge == InitAttach /\ [][NextMerge]_vars

----------------------------------------------------------------------------
(* Mapper.attach_many over the setup's types *)

\* cls.__name__.lower() of the setup's types
ClassName(t) == <<"vegetable", "tomato">>[t]

\* attr_name_map of the setup
attr_name_map(cls) == ClassName(cls)

\* the collation name maps handed to attach_many: none, the setup's
\* f'{cls.__name__.lower()}_{group}_states', and one table for every group
CollNameMaps == {"none", "setup", "shared"}

coll_name_map(map, cls, group) ==
    IF map = "setup" THEN ClassName(cls) \o "_" \o group \o "_states"
    ELSE "tomato_aging_states"

\* the keys of a dict, one after the other; attach checks every entry before
\* it updates the Mapper, so their order shows in no outcome
RECURSIVE DictKeys(_)
DictKeys(S) ==
    IF S = {} THEN <<>>
    ELSE LET x == CHOOSE x \in S : TRUE IN <<x>> \o DictKeys(S \ {x})

\* coll_groups as attach_many builds it for one type
CollGroupsOf(gr, map, cls) ==
    LET ks == DictKeys(IF map = "none" THEN {} ELSE DOMAIN gr[cls])
    IN  [given |-> TRUE,
         d |-> [i \in DOMAIN ks |->
                  [k |-> ks[i], v |-> ByName(coll_name_map(map, cls, ks[i]))]]]

\* the loop of attach_many over type_list; an attach that raises ends it
RECURSIVE AttachEach(_, _, _, _, _, _, _)
AttachEach(st, cset, cmap, gr, type_list, map, i) ==
    IF st.kind = "raise" \/ i > Len(type_list) THEN st
    ELSE AttachEach(attach(cset, cmap, st.attribute_comps, st.collation_groups,
                           type_list[i], ByName(attr_name_map(type_list[i])),
                           NotGiven, CollGroupsOf(gr, map, type_list[i])),
                    cset, cmap, gr, type_list, map, i + 1)

\* an attach_many that never asks the collation name map
attach_manyMutantNoGroups(cset, cmap, ac, cg, gr, type_list, map) ==
    AttachEach([attribute_comps |-> ac, collation_groups |-> cg,
                kind |-> "return", value |-> None],
               cset, cmap, gr, type_list, "none", 1)

\* Mapper.attach_many(type_list, attr_name_map, coll_name_map)
attach_many(cset, cmap, ac, cg, gr, type_list, map) ==
    AttachEach([attribute_comps |-> ac, collation_groups |-> cg,
                kind |-> "return", value |-> None],
               cset, cmap, gr, type_list, map, 1)

\* tables for the implicit group cut, which the setup's schema lacks
CutComponents ==
    <<Component("vegetable_cut_states", "veg", 5),
      Component("tomato_cut_states", "veg", 6)>>

\* the setup's schema, with or without tables for the group cut
InitAttachMany ==
    /\ types = VegTypes
    /\ key_registry = [t \in DOMAIN VegTypes |-> MetaNew(VegTypes, t).keys]
    /\ group_registry = [t \in DOMAIN VegTypes |-> MetaNew(VegTypes, t).groups]
    /\ call = NoCall
    /\ IdleDatabase
    /\ IdleCollector
    /\ action_registry = FALSE
    /\ attr_compose_map = TRUE
    /\ coll_compose_map = TRUE
    /\ attribute_comps = <<>>
    /\ collation_groups = <<>>
    /\ mres = NoMres
    /\ \E extra \in SUBSET Range(CutComponents) :
        /\ component_set = Range(SetupComponents) \cup extra
        /\ component_map = [n \in Components \cup {c.name : c \in extra} |->
                              IF n \in Components THEN ComponentNamed(n)
                              ELSE CHOOSE c \in extra : c.name = n]

TypeLists == {<<1>>, <<2>>, <<1, 2>>, <<2, 1>>}

\* mapper.attach_many(type_list, attr_name_map, coll_name_map)
AttachMany(type_list, map) ==
    /\ LET res == attach_many(component_set, component_map, attribute_comps,
                              collation_groups, group_registry, type_list, map)
       IN  /\ attribute_comps' = res.attribute_comps
           /\ collation_groups' = res.collation_groups
           /\ mres' = [op |-> "attach_many", type_list |-> type_list, map |-> map,
                       kind |-> res.kind, value |-> res.value]
    /\ UNCHANGED <<dbVars, regVars, call, colVars, action_registry, attr_compose_map,
                   coll_compose_map, component_set, component_map>>

NextAttachMany ==
    \E type_list \in TypeLists, map \in CollNameMaps : AttachMany(type_list, map)

SpecAttachMany == InitAttachMany /\ [][NextAttachMany]_vars

----------------------------------------------------------------------------
(* Composing the attached components of a chain of types *)

\* the vegetables types, continued by types with an empty body
ChainTypes ==
    [i \in 1..ChainDepth |-> IF i \in DOMAIN VegTypes THEN VegTypes[i] ELSE <<>>]

\* a ComposableMapper over the setup's schema, given each compose map or not
InitCompose ==
    /\ types = ChainTypes
    /\ key_registry = [t \in DOMAIN ChainTypes |-> MetaNew(ChainTypes, t).keys]
    /\ group_registry = [t \in DOMAIN ChainTypes |-> MetaNew(ChainTypes, t).groups]
    /\ call = NoCall
    /\ IdleDatabase
    /\ IdleCollector
    /\ action_registry = FALSE
    /\ attr_compose_map \in BOOLEAN
    /\ coll_compose_map \in BOOLEAN
    /\ component_set = Range(SetupComponents)
    /\ component_map = [n \in Components |-> ComponentNamed(n)]
    /\ attribute_comps = <<>>
    /\ collation_groups = <<>>
    /\ mres = NoMres

\* mapper.compose(obj, action_groups) for a type, or an instance of it
Compose(t, action_groups) ==
    /\ t \in DOMAIN types
    /\ LET env == [ac |-> attribute_comps, cg |-> collation_groups,
                   attr_compose_map |-> attr_compose_map,
                   coll_compose_map |-> coll_compose_map]
           st == compose(env, t, action_groups)
       IN  mres' = [op |-> "compose", type |-> t, action_groups |-> action_groups,
                    kind |-> IF st.kind = "raise" THEN "raise" ELSE "return",
                    value |-> IF st.kind = "raise" THEN st.value
                              ELSE IF st.some THEN st.attr_comp_agg.name ELSE None,
                    joins |-> st.joins]
           /\ attribute_comps' = st.ac
           /\ collation_groups' = st.cg
    /\ UNCHANGED <<dbVars, regVars, call, colVars, action_registry, attr_compose_map,
                   coll_compose_map, component_set, component_map>>

\* self.compose(other, on, outer) on two Relations of the schema
ComposeRelations(self, other, outer) ==
    /\ mres' = [op |-> "relation_compose", self |-> self, other |-> other,
                outer |-> outer,
                result |-> RelationCompose(self, other, <<self.name, other.name>>, outer)]
    /\ UNCHANGED <<dbVars, regVars, call, colVars, action_registry, attr_compose_map,
                   coll_compose_map, component_set, component_map,
                   attribute_comps, collation_groups>>

ComposeAttachGroups ==
    {NotGiven,
     [given |-> TRUE,
      d |-> <<[k |-> "aging", v |-> ByName("tomato_aging_states")],
              [k |-> "cooking", v |-> ByName("tomato_cooking_states")]>>]}

ComposeGroupLists == {Omitted, Given(<<"aging">>), Given(<<"cooking", "aging">>)}

NextCompose ==
    \/ \E t \in DOMAIN ChainTypes, c \in {ByName("vegetable"), ByName("tomato")},
          g \in ComposeAttachGroups : Attach(t, c, NotGiven, g)
    \/ \E t \in DOMAIN ChainTypes, action_groups \in ComposeGroupLists :
        Compose(t, action_groups)
    \/ \E self, other \in {ComponentNamed("vegetable"), ComponentNamed("tomato")},
          outer \in BOOLEAN :
        ComposeRelations(self, other, outer)

SpecCompose == InitCompose /\ [][NextCompose]_vars

----------------------------------------------------------------------------
(* Reading through a Mapper: collect, compose and the inserts property *)

FrameKeyLists == {<<>>, <<"ripe">>, <<"ripe", "diced">>}

NextFrame ==
    \/ \E a \in SetupAttachments : Configure(a)
    \/ \E t \in DOMAIN VegTypes, keys \in FrameKeyLists :
        \E results \in [RegisteredKeys(t, keys) -> ResultKinds] :
            Collect(t, keys, results)
    \/ \E t \in DOMAIN VegTypes, action_groups \in ComposeGroupLists :
        Compose(t, action_groups)
    \/ ReadInserts

SpecFrame == InitMapper /\ [][NextFrame]_vars

----------------------------------------------------------------------------
(* Constructing components against one Schema *)

\* the number of components constructed
MaxComponents == 4

SchemaNames == {"vegetable", "tomato", "tomato_aging_states"}

\* schema = Schema()
InitSchema ==
    /\ InitRegistry

\* Component(name, obj, schema): the constructor adds itself to the schema
NewComponent(name) ==
    /\ Cardinality(component_set) < MaxComponents
    /\ LET comp == Component(name, "veg", Cardinality(component_set) + 1)
           res == add_component(component_set, component_map, comp)
       IN  /\ component_set' = res.component_set
           /\ component_map' = res.component_map
           /\ mres' = [op |-> "add_component", name |-> name, comp |-> comp,
                       kind |-> "return"]
    /\ UNCHANGED <<dbVars, regVars, call, colVars, action_registry, attr_compose_map,
                   coll_compose_map, attribute_comps, collation_groups>>

\* schema.get_component(name)
GetComponent(name) ==
    /\ mres' = [op |-> "get_component", name |-> name,
                result |-> get_component(component_map, name)]
    /\ UNCHANGED <<dbVars, regVars, call, colVars, action_registry, attr_compose_map,
                   coll_compose_map, component_set, component_map,
                   attribute_comps, collation_groups>>

NextSchema ==
    \/ \E name \in SchemaNames : NewComponent(name)
    \/ \E name \in SchemaNames : GetComponent(name)

SpecSchema == InitSchema /\ [][NextSchema]_vars

----------------------------------------------------------------------------
(* Properties of the registry and of collate *)

\* the types at or above t whose body declares key k
Declarers(t, k) == {i \in 1..t : \E j \in DOMAIN types[i] : types[i][j].key = k}

MaxOf(S) == CHOOSE x \in S : \A y \in S : y <= x

MinOf(S) == CHOOSE x \in S : \A y \in S : x <= y

ExplicitKeys(t) == DOMAIN key_registry[t] \ {None}

\* C6: for every type T and explicit key k declared by more than one type of
\* T's ancestor chain, T.key_registry[k] is the method and the group list of
\* the most derived declaration of k.
C6_MostDerivedWins ==
    \A t \in DOMAIN types : \A k \in Keys :
        Cardinality(Declarers(t, k)) > 1 =>
            LET m == MaxOf(Declarers(t, k))
            IN  \E j \in DOMAIN types[m] :
                    /\ types[m][j].key = k
                    /\ key_registry[t][k] =
                         [method |-> Method(m, types[m][j]),
                          groups |-> types[m][j].groups]

\* C7: every entry k of T.group_registry[g] is backed by the key registry: an
\* explicit k is in T.key_registry with g in its recorded group list, the
\* anonymous marker has a handler for g in T.key_registry[None].
C7_RegistriesAgree ==
    \A t \in DOMAIN types : \A g \in DOMAIN group_registry[t] :
        \A n \in DOMAIN group_registry[t][g] :
            LET k == group_registry[t][g][n]
            IN  IF k = None
                THEN /\ None \in DOMAIN key_registry[t]
                     /\ g \in DOMAIN key_registry[t][None]
                ELSE /\ k \in DOMAIN key_registry[t]
                     /\ g \in Range(key_registry[t][k].groups)

\* C8: for a key absent from the key registry and a group g that is not None,
\* collate(key, g, *args) returns what the implicit handler of g returns for
\* (key, *args) when there is one, and returns None without raising otherwise.
C8_ImplicitDispatch ==
    (/\ call.op = "collate"
     /\ call.key # None
     /\ call.key \notin DOMAIN key_registry[call.type]
     /\ call.group # None)
        => LET kr == key_registry[call.type]
               handled == None \in DOMAIN kr /\ call.group \in DOMAIN kr[None]
           IN  IF handled
               THEN /\ call.out.kind = "invoke"
                    /\ call.out.method = kr[None][call.group]
                    /\ call.out.args = <<call.key>> \o call.args
                    /\ call.result = call.ret
               ELSE /\ call.out.kind = "return"
                    /\ call.result = None

\* C9: for an explicit key k of the key registry and any group argument,
\* collate(k, group, *args) invokes the method bound to k with (*args) and
\* returns its result; no implicit handler is invoked.
C9_ExplicitIgnoresGroup ==
    (call.op = "collate" /\ call.key \in ExplicitKeys(call.type))
        => /\ call.out.kind = "invoke"
           /\ call.out.method = key_registry[call.type][call.key].method
           /\ call.out.args = call.args
           /\ call.result = call.ret

\* an explicit key collated under a group that has an implicit handler
C9_Witness ==
    /\ call.op = "collate"
    /\ call.key \in ExplicitKeys(call.type)
    /\ None \in DOMAIN key_registry[call.type]
    /\ call.group \in DOMAIN key_registry[call.type][None]
    /\ call.out.kind = "invoke"

----------------------------------------------------------------------------
(* Properties of the Collector *)

\* the module as it is shipped: neither free name bound, no action_registry
AsShipped == tables = Unbound /\ utils = Unbound /\ ~action_registry

\* the rows a bucket or a result holds, over all its tables
RECURSIVE RowCount(_)
RowCount(insert_dict) ==
    IF insert_dict = <<>> THEN 0
    ELSE Len(Head(insert_dict).v) + RowCount(Tail(insert_dict))

\* the rows the store holds under the receipts of S
RECURSIVE RowsHeld(_, _)
RowsHeld(store, S) ==
    IF S = {} THEN 0
    ELSE LET r == CHOOSE x \in S : TRUE
         IN  RowCount(ODGet(store, r)) + RowsHeld(store, S \ {r})

Held(store) == Range(ODKeys(store))

\* C3: a collect_inserts call given an explicit receipt list leaves the bucket
\* of every held receipt that the list does not name as it was, and returns
\* only rows of the receipts it names: as many rows as those buckets held.
C3_UnlistedUntouched ==
    (cres.op = "collect_inserts" /\ cres.receipts.given)
        => LET listed == Range(cres.receipts.list)
           IN  /\ \A A \in Held(cres.before) \ listed :
                    /\ ODHas(inserts, A)
                    /\ ODGet(inserts, A) = ODGet(cres.before, A)
               /\ RowCount(cres.out) = RowsHeld(cres.before, Held(cres.before) \cap listed)

\* one producer's receipt is withdrawn while another producer's stays held
C3_Witness ==
    /\ cres.op = "collect_inserts"
    /\ cres.receipts.given
    /\ \E A, B \in Held(cres.before) :
        /\ A \notin Range(cres.receipts.list)
        /\ B \in Range(cres.receipts.list)
        /\ owner[A] # owner[B]
        /\ RowCount(ODGet(cres.before, A)) > 0
        /\ RowCount(ODGet(cres.before, B)) > 0
    /\ RowCount(cres.out) > 0

\* C10: every add_insert(component, payload, receipts) call returns a receipt
\* that was not held before, with the payload as the one row under that
\* component in the receipt's bucket and the receipt appended to the
\* accumulator when one is supplied; stated for the module as shipped.
C10_AddInsertStages ==
    (cres.op = "add_insert" /\ AsShipped)
        => /\ cres.kind = "return"
           /\ cres.value = "receipt"
           /\ ~ODHas(cres.before, cres.receipt)
           /\ ODHas(inserts, cres.receipt)
           /\ ODGet(inserts, cres.receipt) =
                <<[k |-> cres.comp, v |-> <<prepare_insert(cres.comp, cres.payload)>>]>>
           /\ cres.receipts.given =>
                cres.receipts_after.list = Append(cres.receipts.list, cres.receipt)

\* the rows the store holds under table, bucket after bucket in receipt order
RECURSIVE RowsFor(_, _)
RowsFor(store, table) ==
    IF store = <<>> THEN <<>>
    ELSE (IF ODHas(Head(store).v, table) THEN ODGet(Head(store).v, table) ELSE <<>>)
         \o RowsFor(Tail(store), table)

\* C11: collect_inserts with receipts omitted returns, for every component
\* some held bucket names, the concatenation of the held buckets' rows for
\* that component in receipt order, and nothing for any other component;
\* afterwards no receipt is held; with nothing held the result is empty.
C11_FlushAll ==
    (cres.op = "collect_inserts" /\ ~cres.receipts.given)
        => /\ inserts = <<>>
           /\ \A i, j \in DOMAIN cres.out : i # j => cres.out[i].k # cres.out[j].k
           /\ \A t \in Components :
                /\ ODHas(cres.out, t) <=>
                     \E i \in DOMAIN cres.before : ODHas(cres.before[i].v, t)
                /\ ODHas(cres.out, t) => ODGet(cres.out, t) = RowsFor(cres.before, t)
           /\ cres.before = <<>> => cres.out = <<>>

\* a flush of two held receipts whose buckets name the same component
C11_Witness ==
    /\ cres.op = "collect_inserts"
    /\ ~cres.receipts.given
    /\ Len(cres.before) >= 2
    /\ \E t \in Components :
        /\ ODHas(cres.before[1].v, t)
        /\ ODHas(cres.before[2].v, t)
        /\ ODHas(cres.out, t)
        /\ Len(ODGet(cres.out, t)) = 2
    /\ inserts = <<>>

----------------------------------------------------------------------------
(* Properties of Mapper.attach *)

\* a component argument that the bound Schema does not hold
Bad(arg) ==
    IF arg.kind = "name" THEN arg.name \notin DOMAIN component_map
    ELSE arg.obj \notin component_set

\* not found for a name, not registered for an instance
ErrorOf(arg) == IF arg.kind = "name" THEN "ValueError" ELSE "TypeError"

\* the component arguments of an attach call, in the order they are given
AttachComponents(m) ==
    <<m.attr_comp>>
    \o (IF m.coll_comp.given THEN <<m.coll_comp.comp>> ELSE <<>>)
    \o (IF m.coll_groups.given
        THEN [i \in DOMAIN m.coll_groups.d |-> m.coll_groups.d[i].v]
        ELSE <<>>)

\* C5: an attach call given a component that the bound Schema does not hold,
\* in any position, raises within the call: the not-found error for a name,
\* the not-registered error for an instance; and every component held in
\* attribute_comps or collation_groups is a member of the bound Schema.
C5_AttachChecksEagerly ==
    /\ \A t \in DOMAIN attribute_comps : attribute_comps[t] \in component_set
    /\ \A t \in DOMAIN collation_groups : \A g \in DOMAIN collation_groups[t] :
        collation_groups[t][g] \in component_set
    /\ mres.op = "attach" =>
        LET args == AttachComponents(mres)
            bad == {i \in DOMAIN args : Bad(args[i])}
        IN  bad # {} =>
                /\ mres.kind = "raise"
                /\ mres.value = ErrorOf(args[MinOf(bad)])

\* an attach whose attribute component and first group are valid and whose
\* second group names a foreign instance
C5_Witness ==
    /\ mres.op = "attach"
    /\ mres.kind = "raise"
    /\ mres.value = "TypeError"
    /\ ~Bad(mres.attr_comp)
    /\ mres.coll_groups.given
    /\ Len(mres.coll_groups.d) = 2
    /\ ~Bad(mres.coll_groups.d[1].v)
    /\ Bad(mres.coll_groups.d[2].v)
    /\ mres.type \in DOMAIN attribute_comps

----------------------------------------------------------------------------
(* Properties of Mapper.collect *)

\* C1: every collate(key) call that collect makes, with no group, for a key
\* that is not an explicit key of the type's registry returns None and
\* invokes no method, whatever implicit handlers the type registers; and
\* collect stages no collation insert for such a key.
C1_WildcardGated ==
    mres.op = "collect" =>
        /\ \A i \in DOMAIN mres.calls :
            mres.calls[i].key \notin ExplicitKeys(mres.type) =>
                /\ mres.calls[i].kind = "return"
                /\ mres.calls[i].value = None
        /\ \A i \in DOMAIN mres.staged :
            mres.staged[i].what = "collation" =>
                mres.staged[i].key \in ExplicitKeys(mres.type)

\* a collect over an unregistered key and a registered one, on a type with an
\* implicit handler, that stages the registered key's collation insert
C1_Witness ==
    /\ mres.op = "collect"
    /\ mres.kind = "return"
    /\ None \in DOMAIN key_registry[mres.type]
    /\ \E i \in DOMAIN mres.calls :
        /\ mres.calls[i].key \notin ExplicitKeys(mres.type)
        /\ mres.calls[i].kind = "return"
    /\ \E i \in DOMAIN mres.staged : mres.staged[i].what = "collation"

\* the attachments of the vegetables scenario
VegetablesSetup ==
    /\ 1 \in DOMAIN attribute_comps
    /\ attribute_comps[1] = ComponentNamed("vegetable")
    /\ 2 \in DOMAIN attribute_comps
    /\ attribute_comps[2] = ComponentNamed("tomato")
    /\ 1 \notin DOMAIN collation_groups
    /\ 2 \in DOMAIN collation_groups
    /\ collation_groups[2] = [aging |-> ComponentNamed("tomato_aging_states"),
                              cooking |-> ComponentNamed("tomato_cooking_states")]

\* collect(tomato, ['ripe', 'diced']) on an empty Collector, both actions
\* returning data
TomatoCollected ==
    /\ mres.op = "collect"
    /\ mres.type = 2
    /\ mres.keys = <<"ripe", "diced">>
    /\ mres.results = [ripe |-> "data", diced |-> "data"]
    /\ mres.fresh

FourRows ==
    <<[k |-> "vegetable", v |-> <<[name |-> "t1", color |-> "red"]>>],
      [k |-> "tomato", v |-> <<[name |-> "t1", radius |-> "10"]>>],
      [k |-> "tomato_aging_states", v |-> <<[name |-> "t1", state |-> "ripe", age |-> "3"]>>],
      [k |-> "tomato_cooking_states",
       v |-> <<[name |-> "t1", state |-> "diced", pieces |-> "4"]>>]>>

\* the outcome the vegetables scenario is to have
ScenarioOutcome ==
    /\ mres.kind = "return"
    /\ Len(mres.staged) = 4
    /\ (cres.op = "collect_inserts" /\ ~cres.receipts.given /\ cres.before = mres.after)
        => cres.out = FourRows

\* C2: with the vegetables attachments, collect(tomato, ['ripe', 'diced']) on
\* an empty Collector returns with four inserts staged, and the flush that
\* follows yields one row in each of the four components, each collation row
\* the connective data merged with the action's output; stated for the
\* modules as shipped.
C2_FourRows ==
    (VegetablesSetup /\ TomatoCollected /\ AsShipped) => ScenarioOutcome

\* the row add_insert stages for a staged insert
StagedBucket(e) ==
    <<[k |-> e.comp.name, v |-> <<prepare_insert(e.comp.name, e.payload)>>]>>

----------------------------------------------------------------------------
(* Properties of compose *)

\* the ancestors of type t, t included, that have an attribute component
AttachedAncestors(t) == {c \in 1..t : c \in DOMAIN attribute_comps}

\* C12: on a Mapper given its attr_compose_map, compose with no action groups
\* over a type with N >= 1 ancestors holding an attribute component returns
\* after exactly N - 1 Relation.compose calls, all of them vertical and none
\* for an ancestor without an attribute component.
C12_JoinCount ==
    (/\ mres.op = "compose"
     /\ ~mres.action_groups.given
     /\ attr_compose_map
     /\ AttachedAncestors(mres.type) # {})
        => /\ mres.kind = "return"
           /\ Len(mres.joins) = Cardinality(AttachedAncestors(mres.type)) - 1
           /\ \A i \in DOMAIN mres.joins :
                /\ mres.joins[i].dir = "vertical"
                /\ mres.joins[i].cls \in AttachedAncestors(mres.type)

\* a compose over three ancestors of which the middle one has no attribute
\* component: one join
C12_Witness ==
    /\ mres.op = "compose"
    /\ ~mres.action_groups.given
    /\ attr_compose_map
    /\ mres.type = 3
    /\ AttachedAncestors(3) = {1, 3}
    /\ mres.kind = "return"
    /\ Len(mres.joins) = 1

\* C13: Relation.compose(other, condition, outer) returns a Relation that is
\* neither the receiver nor the other operand.
C13_ComposeIsNew ==
    mres.op = "relation_compose" =>
        /\ mres.result # mres.self
        /\ mres.result # mres.other

----------------------------------------------------------------------------
(* Properties of the Schema *)

\* C14: no two members of a Schema share a name, and constructing a
\* component under a name the Schema already maps fails.
C14_NamesUnique ==
    /\ \A a, b \in component_set : a.name = b.name => a = b
    /\ (mres.op = "add_component" /\ \E c \in component_set :
            c.name = mres.name /\ c # mres.comp) => mres.kind = "raise"

----------------------------------------------------------------------------
(* Properties of the walk of collect *)

\* the requested keys of the last collect that yielded data
YieldingKeys ==
    {k \in Range(mres.keys) :
        k \in DOMAIN mres.results /\ mres.results[k] = "data"}

\* C15: an ancestor without an attribute component gets no attribute insert,
\* but one collation insert for every requested key that yields data and every
\* group of that key for which the ancestor has a collation component.
C15_CollationWithoutAttribute ==
    (/\ mres.op = "collect" /\ mres.kind = "return"
     /\ action_registry /\ tables = Components) =>
        \A cls \in 1..mres.type :
            ~HasAttributeComp(attribute_comps, cls) =>
                /\ \A i \in DOMAIN mres.staged :
                     ~(mres.staged[i].cls = cls /\ mres.staged[i].what = "attribute")
                /\ \A k \in YieldingKeys :
                     \A g \in Range(key_registry[mres.type][k].groups) :
                        HasCollationComp(collation_groups, cls, g) =>
                            \E i \in DOMAIN mres.staged :
                                /\ mres.staged[i].cls = cls
                                /\ mres.staged[i].what = "collation"
                                /\ mres.staged[i].key = k
                                /\ mres.staged[i].group = g

\* C16: collect of an instance whose components accessor returns nested CO3
\* objects returns the receipts of its own inserts followed by those of the
\* nested objects.
C16_NestedCollected ==
    (/\ mres.op = "collect"
     /\ \E i \in DOMAIN mres.components : mres.components[i] # "other"
     /\ tables = Components /\ utils # Unbound /\ action_registry) =>
        /\ mres.kind = "return"
        /\ Len(mres.receipts) >= Len(mres.staged)

\* the walk of collect from the current state of the Mapper and its Collector
WalkFrom(t, keys, results) ==
    collect([store |-> inserts, minted |-> minted, receipts |-> <<>>,
             staged |-> <<>>, calls |-> <<>>, kind |-> "ok", value |-> None,
             ac |-> attribute_comps, cg |-> collation_groups],
            [kr |-> key_registry[t], ac |-> attribute_comps,
             cg |-> collation_groups, tables |-> tables, utils |-> utils,
             action_registry |-> action_registry],
            Instance(t, keys, results), keys)

\* the requested keys that are registered and whose action yields data
KeptKeys(t, keys, results) ==
    SelectSeq(keys, LAMBDA k : k \in RegisteredKeys(t, keys) /\ results[k] = "data")

\* C17: a requested key that is unregistered or yields no data changes nothing:
\* every collect stages, mints, stores and returns (or raises) exactly what the
\* same collect without those keys does.
C17_SoftMisses ==
    [][(mres'.op = "collect" /\ cres'.op = "none" /\ mres'.components = <<>>) =>
        LET st == WalkFrom(mres'.type,
                           KeptKeys(mres'.type, mres'.keys, mres'.results),
                           mres'.results)
        IN  /\ inserts' = st.store
            /\ minted' = st.minted
            /\ mres'.staged = st.staged
            /\ mres'.kind = (IF st.kind = "raise" THEN "raise" ELSE "return")
            /\ mres'.value = st.value
            /\ mres'.receipts = (IF st.kind = "raise" THEN <<>> ELSE st.receipts)]_vars

\* a collect that met an unregistered key first and still staged the collation
\* insert of the next key, for the type attached last
C17_Witness ==
    /\ mres.op = "collect"
    /\ mres.kind = "return"
    /\ mres.keys = <<"slice", "ripe">>
    /\ \E i \in DOMAIN mres.staged :
         /\ mres.staged[i].what = "collation"
         /\ mres.staged[i].key = "ripe"
         /\ mres.staged[i].cls = 2

----------------------------------------------------------------------------
(* Properties of attach_many *)

----------------------------------------------------------------------------
(* Properties of the registries, as the tests read them *)

\* the positions of list at which x occurs
Occurrences(list, x) == {n \in DOMAIN list : list[n] = x}

\* C19: for every type and explicit key k, scanning group_registry finds each
\* group as often as the group list of key_registry[k] names it: k occurs once
\* in the list of each of its groups and in no other list.
C19_ScanMatchesKeyRegistry ==
    \A t \in DOMAIN types : \A k \in ExplicitKeys(t) :
        \A g \in DOMAIN group_registry[t] :
            Cardinality(Occurrences(group_registry[t][g], k)) =
                Cardinality(Occurrences(key_registry[t][k].groups, g))

\* C20: collate(k) without a group, for an entry k of some list of the
\* group_registry of the instance's type, returns a result other than None
\* when the actions return data.
C20_GroupEntriesCollate ==
    (/\ call.op = "collate"
     /\ call.group = None
     /\ call.ret = "data"
     /\ \E g \in DOMAIN group_registry[call.type] :
            call.key \in Range(group_registry[call.type][g]))
        => /\ call.result # None
           /\ call.result # "raised"

----------------------------------------------------------------------------
(* Properties of repeated collects *)

\* the last two Mapper calls collected the same instance with the same keys
SameRequest ==
    /\ mres.op = "collect"
    /\ mres.prev.op = "collect"
    /\ mres.prev.type = mres.type
    /\ Range(mres.prev.keys) = Range(mres.keys)

----------------------------------------------------------------------------
(* Properties of the order in which collect stages *)

\* the positions of the staged inserts of the last collect that are inserts
\* of this kind for this ancestor
StagedAt(what, cls) ==
    {i \in DOMAIN mres.staged :
        mres.staged[i].what = what /\ mres.staged[i].cls = cls}

\* a list without the later repetitions of its entries
RECURSIVE FirstOccurrences(_)
FirstOccurrences(list) ==
    IF list = <<>> THEN <<>>
    ELSE LET front == FirstOccurrences(SubSeq(list, 1, Len(list) - 1))
             last == list[Len(list)]
         IN  IF last \in Range(front) THEN front ELSE Append(front, last)

\* the staging order the claim describes, for the last collect
StagingOrder ==
    /\ mres.kind = "return"
    /\ \A cls \in AttachedAncestors(mres.type) :
         Cardinality(StagedAt("attribute", cls)) = 1
    /\ \A i, j \in DOMAIN mres.staged :
         /\ mres.staged[i].cls < mres.staged[j].cls => i < j
         /\ (/\ mres.staged[i].cls = mres.staged[j].cls
             /\ mres.staged[i].what = "attribute"
             /\ mres.staged[j].what = "collation") => i < j
    /\ mres.keys = <<>> =>
         /\ mres.calls = <<>>
         /\ \A i \in DOMAIN mres.staged : mres.staged[i].what = "attribute"
    /\ mres.fresh =>
         ODKeys(inserts_from_receipts(mres.after, Omitted, TRUE).out) =
            FirstOccurrences([i \in DOMAIN mres.staged |-> mres.staged[i].comp.name])

\* C22: a collect stages exactly one attribute insert per ancestor that has an
\* attribute component, base to derived, each before that ancestor's collation
\* inserts and before any insert of a more derived ancestor; without keys it
\* stages attribute inserts only and invokes no action; a flush of the
\* otherwise empty Collector lists the components in staging order. Stated for
\* the modules as shipped.
C22_StagingOrder ==
    (/\ mres.op = "collect" /\ mres.components = <<>>
     /\ AsShipped /\ AttachedAncestors(mres.type) # {}) => StagingOrder

----------------------------------------------------------------------------
(* Properties of the walk of compose *)

\* the requested groups of the last compose for which this ancestor has a
\* collation component, in the order they were requested
RequestedFor(cls) ==
    SelectSeq(IF mres.action_groups.given THEN mres.action_groups.list ELSE <<>>,
              LAMBDA g : HasCollationComp(collation_groups, cls, g))

\* the joins of the last compose made for this ancestor in this direction
JoinsOf(cls, dir) ==
    SelectSeq(mres.joins, LAMBDA j : j.cls = cls /\ j.dir = dir)

\* C23: on a Mapper given both compose maps, compose walks the ancestors base
\* to derived; for each ancestor with an attribute component it first joins
\* the collation component of every requested group that ancestor has one
\* for, in the order requested and on a condition computed from the bare
\* attribute component and the collation component, and only then joins the
\* running aggregate with the per-ancestor aggregate; other groups and
\* ancestors add no join.
C23_ComposeOrder ==
    (mres.op = "compose" /\ attr_compose_map /\ coll_compose_map) =>
        /\ mres.kind = "return"
        /\ \A i, j \in DOMAIN mres.joins :
             i < j => /\ mres.joins[i].cls <= mres.joins[j].cls
                      /\ (/\ mres.joins[i].cls = mres.joins[j].cls
                          /\ mres.joins[j].dir = "horizontal")
                            => mres.joins[i].dir = "horizontal"
        /\ \A cls \in 1..mres.type :
             LET H == JoinsOf(cls, "horizontal")
                 V == JoinsOf(cls, "vertical")
                 G == RequestedFor(cls)
             IN  IF cls \notin AttachedAncestors(mres.type)
                 THEN H = <<>> /\ V = <<>>
                 ELSE /\ Len(H) = Len(G)
                      /\ \A n \in DOMAIN H :
                           /\ H[n].other = collation_groups[cls][G[n]]
                           /\ H[n].on = <<attribute_comps[cls].name, H[n].other.name>>
                           /\ H[n].self = IF n = 1 THEN attribute_comps[cls]
                                          ELSE H[n - 1].result
                      /\ Len(V) = IF cls = MinOf(AttachedAncestors(mres.type))
                                  THEN 0 ELSE 1
                      /\ \A n \in DOMAIN V :
                           /\ V[n].other = IF H = <<>> THEN attribute_comps[cls]
                                           ELSE H[Len(H)].result
                           /\ V[n].on = <<V[n].self.name, attribute_comps[cls].name>>

\* a compose over two attached ancestors, the derived one joined with both of
\* its collation components, cooking before aging as requested, before it is
\* joined to the aggregate
C23_Witness ==
    /\ mres.op = "compose"
    /\ attr_compose_map /\ coll_compose_map
    /\ mres.kind = "return"
    /\ mres.action_groups = Given(<<"cooking", "aging">>)
    /\ Len(mres.joins) = 3
    /\ mres.joins[1].dir = "horizontal"
    /\ mres.joins[1].other.name = "tomato_cooking_states"
    /\ mres.joins[2].other.name = "tomato_aging_states"
    /\ mres.joins[3].dir = "vertical"

----------------------------------------------------------------------------
(* Properties of repeated attach calls *)

\* the component an argument of attach stands for, once checked
Resolve(arg) == IF arg.kind = "name" THEN component_map[arg.name] ELSE arg.obj

\* the groups a coll_groups argument names
GroupsNamed(coll_groups) ==
    IF coll_groups.given THEN {coll_groups.d[i].k : i \in DOMAIN coll_groups.d} ELSE {}

\* C24: every attach that returns sets the attribute component of its type,
\* records a given default collation component under None, and merges the
\* supplied group map over the type's group map: a named group maps to the
\* supplied component, every other group keeps its component, and the maps
\* of other types stay as they were. By induction the last attach naming a
\* group decides it.
C24_AttachMerges ==
    [][(mres'.op = "attach" /\ mres'.kind = "return") =>
        LET t == mres'.type
            named == GroupsNamed(mres'.coll_groups)
            old == GroupMap(collation_groups, t)
            new == GroupMap(collation_groups', t)
            default == IF mres'.coll_comp.given THEN {None} ELSE {}
        IN  /\ attribute_comps'[t] = Resolve(mres'.attr_comp)
            /\ \A u \in DOMAIN attribute_comps \ {t} :
                 attribute_comps'[u] = attribute_comps[u]
            /\ \A u \in DOMAIN collation_groups \ {t} :
                 collation_groups'[u] = collation_groups[u]
            /\ DOMAIN new = DOMAIN old \cup named \cup default
            /\ \A g \in named :
                 LET d == mres'.coll_groups.d
                     last == MaxOf({i \in DOMAIN d : d[i].k = g})
                 IN  new[g] = Resolve(d[last].v)
            /\ \A g \in default \ named : new[g] = Resolve(mres'.coll_comp.comp)
            /\ \A g \in DOMAIN old \ (named \cup default) : new[g] = old[g]]_vars

\* an attach that names only group aging, after which the type still maps
\* group cooking and the default group, which earlier attaches recorded
C24_Witness ==
    /\ mres.op = "attach"
    /\ mres.kind = "return"
    /\ ~mres.coll_comp.given
    /\ GroupsNamed(mres.coll_groups) = {"aging"}
    /\ mres.type \in DOMAIN collation_groups
    /\ DOMAIN collation_groups[mres.type] = {None, "aging", "cooking"}
    /\ collation_groups[mres.type]["aging"].name = "tomato_cooking_states"
    /\ collation_groups[mres.type]["cooking"].name = "tomato_cooking_states"

----------------------------------------------------------------------------
(* Properties of empty action results *)

\* C25: a requested action whose result is None or an empty mapping stages no
\* collation insert; every collation insert staged is for a key whose action
\* returned a row.
C25_EmptyStagesNothing ==
    mres.op = "collect" =>
        \A i \in DOMAIN mres.staged :
            mres.staged[i].what = "collation" =>
                /\ mres.staged[i].key \in DOMAIN mres.results
                /\ mres.results[mres.staged[i].key] = "data"

----------------------------------------------------------------------------
(* Properties of failing attach calls *)

\* C26: an attach that raises leaves attribute_comps and collation_groups as
\* they were before the call.
C26_FailedAttachLeavesMaps ==
    [][(mres'.op = "attach" /\ mres'.kind = "raise") =>
        /\ attribute_comps' = attribute_comps
        /\ collation_groups' = collation_groups]_vars

----------------------------------------------------------------------------
(* Properties of the Collector over a whole session *)

\* the receipts a collect_inserts call asks for
Listed(c) ==
    IF c.receipts.given THEN Range(c.receipts.list) ELSE Held(c.before)

\* C27: no staged payload is lost or returned twice. A collect_inserts call
\* returns the rows of each held receipt it names once, however often the
\* receipt is listed, drops exactly those receipts, leaves every other bucket
\* as it was and creates none for a receipt that is consumed or was never
\* minted; an add_insert call leaves every held bucket as it was.
C27_PayloadsConserved ==
    /\ cres.op = "collect_inserts" =>
        /\ Held(inserts) = Held(cres.before) \ Listed(cres)
        /\ \A r \in Held(inserts) : ODGet(inserts, r) = ODGet(cres.before, r)
        /\ RowCount(cres.out) =
              RowsHeld(cres.before, Held(cres.before) \cap Listed(cres))
        /\ \A t \in Components :
             ODHas(cres.out, t) =>
                \A n \in DOMAIN ODGet(cres.out, t) :
                    ODGet(cres.out, t)[n] \in Range(RowsFor(cres.before, t))
    /\ cres.op = "add_insert" =>
        \A r \in Held(cres.before) :
            /\ ODHas(inserts, r)
            /\ ODGet(inserts, r) = ODGet(cres.before, r)

\* a flush that lists a held receipt twice, next to one that stays held, and
\* returns its one row once
C27_Witness ==
    /\ cres.op = "collect_inserts"
    /\ cres.receipts = Given(<<1, 1>>)
    /\ Held(cres.before) = {1, 2}
    /\ RowCount(ODGet(cres.before, 1)) = 1
    /\ RowCount(cres.out) = 1
    /\ Held(inserts) = {2}

----------------------------------------------------------------------------
(* Properties of the dispatch of actions within collect *)

\* the collate calls of the last collect that were made for this key
CallsFor(key) == {i \in DOMAIN mres.calls : mres.calls[i].key = key}

\* C28: a collect that returns dispatched every requested key through collate
\* exactly once, however many ancestors have an attribute component. Stated
\* for modules that bind tables and utils and define action_registry, where
\* the walk runs to its end.
C28_OneDispatchPerKey ==
    (/\ mres.op = "collect" /\ mres.kind = "return" /\ mres.components = <<>>
     /\ tables = Components /\ utils # Unbound /\ action_registry) =>
        \A k \in Range(mres.keys) : Cardinality(CallsFor(k)) = 1

----------------------------------------------------------------------------
(* Properties of the operations that only read the Mapper and the Collector *)

\* the classes up to the composed type that have an attribute component but
\* no collation entry at all
BareClasses == {c \in 1..mres.type : c \in DOMAIN attribute_comps
                                     /\ c \notin DOMAIN collation_groups}

\* C29: a collect or a compose leaves attribute_comps and collation_groups as
\* they were, creating no entry for a type or group never attached; a compose
\* leaves the Collector's store as it was; and reading the inserts property
\* leaves the store as it was.
C29_ReadsChangeNothing ==
    [][/\ mres'.op \in {"collect", "compose"} =>
            /\ attribute_comps' = attribute_comps
            /\ collation_groups' = collation_groups
       /\ mres'.op = "compose" => inserts' = inserts
       /\ cres'.op = "inserts" => inserts' = inserts]_vars

\* a compose over named groups that met a class with no collation entry,
\* made after the inserts property was read on a store that holds receipts
C29_Witness ==
    /\ mres.op = "compose"
    /\ mres.kind = "return"
    /\ mres.action_groups = Given(<<"cooking", "aging">>)
    /\ BareClasses # {}
    /\ cres.op = "inserts"
    /\ inserts # <<>>
    /\ cres.out # <<>>

----------------------------------------------------------------------------
(* Properties of the Database's caches *)

\* C30: every manage access leaves the local cache empty and the clear
\* queued; an index access calls cache_clear exactly once when one or more
\* manage accesses came since the previous index access and not at all
\* otherwise, and leaves nothing queued.
C30_ManageQueuesOneClear ==
    /\ dcall.op = "manage" => db.local_cache = {} /\ db.reset_cache
    /\ dcall.op = "index" =>
          /\ dcall.cache_clear = (IF dcall.managed > 0 THEN 1 ELSE 0)
          /\ ~db.reset_cache
          /\ db.local_cache = dcall.before.local_cache

\* an index access after two manage accesses and a store, which cleared once
C30_Witness ==
    /\ dcall.op = "index"
    /\ dcall.managed = 2
    /\ dcall.cache_clear = 1
    /\ db.local_cache # {}

====
